---- MODULE Spec2Model ----
(***************************************************************************)
(* A model of the HNSW graph of src/graph.go: layers of layer nodes with   *)
(* keyed neighbor maps, and the operations Add, Delete, Search, Lookup,    *)
(* Len and Dims.                                                           *)
(*                                                                         *)
(* Layer nodes are heap objects.  Each layer owns a sequence objs of       *)
(* objects; an object is referred to by its index in that sequence (0 is   *)
(* the nil pointer).  A Go map is a TLA+ function whose DOMAIN is the set  *)
(* of keys present.  Wherever Go leaves an order open (ranging over a map, *)
(* ties in a heap) the operators below return the SET of all outcomes.     *)
(***************************************************************************)
EXTENDS Integers, Sequences, FiniteSets, TLC

(* ------------------------------ bounds -------------------------------- *)
\* The number of public calls (Add, Delete, Search, Lookup) in a run.
MaxOps == 4
\* The number of calls in a run of Add and Delete alone.
MaxMutations == 5

(* ------------------------------ inputs -------------------------------- *)
Keys == {1, 2, 3}

RECURSIVE Pow(_, _)
Pow(b, e) == IF e = 0 THEN 1 ELSE b * Pow(b, e - 1)

\* The nodes callers pass to Add: key k with the vector <<2^(k-1)>>, and key 1
\* also with a vector of another length.
Nodes ==
  {[Key |-> k, Value |-> <<Pow(2, k - 1)>>] : k \in Keys}
    \cup {[Key |-> 1, Value |-> <<1, 1>>]}
\* The queries callers pass to Search, and the values of k.
Queries == {<<1>>, <<3>>}
SearchKs == {0, 1, 2}

(* ------------------------- configuration ------------------------------ *)
\* The values of Graph.M the model runs with: with M = 1 three nodes in a
\* layer force evictions, with M = 2 they can form a triangle.
Ms == {1, 2}
\* Graph.EfSearch and Graph.EfConstruction as NewGraph sets them.
EfSearch == 20
EfConstruction == 40

nil == 0

(* ------------------------------ Go maps ------------------------------- *)
EmptyMap == [x \in {} |-> nil]
MapPut(mp, k, v) == [x \in (DOMAIN mp) \cup {k} |-> IF x = k THEN v ELSE mp[x]]
MapDel(mp, k) == [x \in (DOMAIN mp) \ {k} |-> mp[x]]
MapLen(mp) == Cardinality(DOMAIN mp)

\* slices.Sort(maps.Keys(mp)): the keys of mp in ascending order.
RECURSIVE SortedKeys(_)
SortedKeys(S) ==
  IF S = {} THEN <<>>
  ELSE LET mn == CHOOSE x \in S : \A y \in S : x <= y
       IN <<mn>> \o SortedKeys(S \ {mn})

(* ---------------------------- distance -------------------------------- *)
\* The embedder's distance function (Graph.Distance): squared Euclidean
\* distance, the shorter vector padded with zeros, so that it is total.
RECURSIVE SqDist(_, _, _)
SqDist(a, b, i) ==
  IF i > Len(a) /\ i > Len(b) THEN 0
  ELSE LET x == IF i <= Len(a) THEN a[i] ELSE 0
           y == IF i <= Len(b) THEN b[i] ELSE 0
       IN (x - y) * (x - y) + SqDist(a, b, i + 1)

Distance(a, b) == SqDist(a, b, 1)

\* CosineDistance, 1 - a.b / (|a| |b|), in thousandths (zero-padded like
\* Distance; 1000 when a norm is zero).
RECURSIVE Dot(_, _, _)
Dot(a, b, i) ==
  IF i > Len(a) \/ i > Len(b) THEN 0
  ELSE a[i] * b[i] + Dot(a, b, i + 1)

ISqrt(x) == CHOOSE r \in 0..x : r * r <= x /\ (r + 1) * (r + 1) > x

CosineDistance(a, b) ==
  LET norms == ISqrt(1000000 * Dot(a, a, 1) * Dot(b, b, 1))
  IN IF norms = 0 THEN 1000
     ELSE 1000 - (1000000 * Dot(a, b, 1)) \div norms


VARIABLES
  layers,    \* Graph.layers: a sequence of layers, layers[1] the base layer
  M,         \* Graph.M: the maximum number of neighbors of a node
  distErr,   \* whether the configured distance function is one that may fail
  last,      \* the most recent public call: its arguments and what it returned
  callsLeft  \* how many more public calls the run makes

vars == <<layers, M, distErr, last, callsLeft>>

\* One call of the distance function fn ("Distance" is Graph.Distance,
\* "CosineDistance" the function replenish passes): the value, or, if the
\* configured functions may fail, an error.
DistCall(fn, a, b) ==
  {[err |-> FALSE,
    d |-> IF fn = "CosineDistance" THEN CosineDistance(a, b) ELSE Distance(a, b)]}
    \cup (IF distErr THEN {[err |-> TRUE, d |-> 0]} ELSE {})

(* ------------------------------- heap --------------------------------- *)
\* heap.Heap[searchCandidate]: a set of entries [node, dist] ordered by dist.
\* Entries of equal distance are in no fixed order: Pop, PopLast, Min and Max
\* may answer with any of them.
HeapMinDist(hp) == CHOOSE d \in {e.dist : e \in hp} : \A e \in hp : d <= e.dist
HeapMaxDist(hp) == CHOOSE d \in {e.dist : e \in hp} : \A e \in hp : d >= e.dist
HeapMins(hp) == {e \in hp : e.dist = HeapMinDist(hp)}
HeapMaxs(hp) == {e \in hp : e.dist = HeapMaxDist(hp)}

RECURSIVE Perms(_)
Perms(S) ==
  IF S = {} THEN {<<>>}
  ELSE UNION {{<<x>> \o p : p \in Perms(S \ {x})} : x \in S}

\* Slice: the contents as a sequence, a minimum first, the rest in any order.
HeapSlice(hp) ==
  IF hp = {} THEN {<<>>}
  ELSE UNION {{<<x>> \o p : p \in Perms(hp \ {x})} : x \in HeapMins(hp)}

(* --------------------------- layerNode.search -------------------------- *)
\* The inner loop of search (lines 143-168): the neighbors of current in
\* ascending key order.  st = [cand, res, visited, improved].
RECURSIVE searchVisit(_, _, _, _, _, _, _)
searchVisit(objs, current, neighborKeys, st, k, efSearch, target) ==
  IF neighborKeys = <<>> THEN {[err |-> FALSE, st |-> st]}
  ELSE
    LET neighborID == Head(neighborKeys)
        neighbor == objs[current].neighbors[neighborID]
    IN
    IF neighborID \in st.visited
    THEN searchVisit(objs, current, Tail(neighborKeys), st, k, efSearch, target)
    ELSE
      LET visited == st.visited \cup {neighborID} IN
      UNION {
        IF dc.err THEN {[err |-> TRUE, st |-> st]}
        ELSE
          LET dist == dc.d
              improved == st.improved \/ dist < HeapMinDist(st.res)
              e == [node |-> neighbor, dist |-> dist]
              results ==
                IF Cardinality(st.res) < k THEN {st.res \cup {e}}
                ELSE IF dist < HeapMaxDist(st.res)
                     THEN {(st.res \ {x}) \cup {e} : x \in HeapMaxs(st.res)}
                     ELSE {st.res}
              pushed == st.cand \cup {e}
              candidates ==
                IF Cardinality(pushed) > efSearch
                THEN {pushed \ {x} : x \in HeapMaxs(pushed)}
                ELSE {pushed}
          IN UNION {
               searchVisit(objs, current, Tail(neighborKeys),
                           [cand |-> c, res |-> r, visited |-> visited,
                            improved |-> improved],
                           k, efSearch, target)
               : r \in results, c \in candidates }
        : dc \in DistCall("Distance", objs[neighbor].Value, target) }

\* The outer loop of search (lines 133-177).
RECURSIVE searchLoop(_, _, _, _, _)
searchLoop(objs, st, k, efSearch, target) ==
  IF st.cand = {}
  THEN {[err |-> "", res |-> s] : s \in HeapSlice(st.res)}
  ELSE UNION {
    LET current == c.node
        st0 == [st EXCEPT !.cand = @ \ {c}, !.improved = FALSE]
    IN UNION {
         IF o.err THEN {[err |-> "distance", res |-> <<>>]}
         ELSE IF ~o.st.improved /\ Cardinality(o.st.res) >= k
              THEN {[err |-> "", res |-> s] : s \in HeapSlice(o.st.res)}
              ELSE searchLoop(objs, o.st, k, efSearch, target)
         : o \in searchVisit(objs, current,
                             SortedKeys(DOMAIN objs[current].neighbors),
                             st0, k, efSearch, target) }
    : c \in HeapMins(st.cand) }

\* A plausible slip in search: the loop over the candidates never runs and
\* the receiver alone is returned.
searchEntryOnly(objs, n, k, efSearch, target) ==
  IF n = nil THEN {[err |-> "node is nil", res |-> <<>>]}
  ELSE {IF dc.err THEN [err |-> "distance", res |-> <<>>]
        ELSE [err |-> "", res |-> <<[node |-> n, dist |-> dc.d]>>]
        : dc \in DistCall("Distance", objs[n].Value, target)}

\* n.search(k, efSearch, target, distance): every (error, result slice) it can
\* return.  n = nil is the nil receiver.
search(objs, n, k, efSearch, target) ==
  IF n = nil THEN {[err |-> "node is nil", res |-> <<>>]}
  ELSE UNION {
    IF dc.err THEN {[err |-> "distance", res |-> <<>>]}
    ELSE LET e == [node |-> n, dist |-> dc.d]
         IN searchLoop(objs,
                       [cand |-> {e}, res |-> {e}, visited |-> {objs[n].Key},
                        improved |-> FALSE],
                       k, efSearch, target)
    : dc \in DistCall("Distance", objs[n].Value, target) }

(* ------------------------ layerNode.addNeighbor ------------------------ *)
\* float32(math.Inf(-1)): below every distance the model computes.
NegInf == -1

\* The scan for the worst neighbor (lines 67-78), the map ranged over in any
\* order: todo holds the keys not yet produced.
RECURSIVE FindWorst(_, _, _, _, _, _)
FindWorst(objs, n, todo, worst, worstDist, dist) ==
  IF todo = {} THEN {[err |-> FALSE, worst |-> worst]}
  ELSE UNION {
    LET neighbor == objs[n].neighbors[key] IN
    UNION {
      IF dc.err THEN {[err |-> TRUE, worst |-> nil]}
      ELSE IF dc.d > worstDist \/ worst = nil
           THEN FindWorst(objs, n, todo \ {key}, neighbor, dc.d, dist)
           ELSE FindWorst(objs, n, todo \ {key}, worst, worstDist, dist)
      : dc \in DistCall(dist, objs[neighbor].Value, objs[n].Value) }
    : key \in todo }

RECURSIVE addNeighbor(_, _, _, _, _)
RECURSIVE replenish(_, _, _)

\* replenish's inner loop (lines 189-201) over neighbor.neighbors.  Returns
\* records [objs, ret]: ret says the function returned at line 199.
RECURSIVE replenishInner(_, _, _, _, _, _)
replenishInner(objs, n, m, neighbor, must, seen) ==
  LET avail == (DOMAIN objs[neighbor].neighbors) \ seen
      stop == IF must \cap avail = {} THEN {[objs |-> objs, ret |-> FALSE]} ELSE {}
  IN stop \cup UNION {
       LET candidate == objs[neighbor].neighbors[key] IN
       IF key \in DOMAIN objs[n].neighbors
       THEN replenishInner(objs, n, m, neighbor, must, seen \cup {key})
       ELSE IF candidate = n
       THEN replenishInner(objs, n, m, neighbor, must, seen \cup {key})
       ELSE UNION {
              IF MapLen(a.objs[n].neighbors) >= m
              THEN {[objs |-> a.objs, ret |-> TRUE]}
              ELSE replenishInner(a.objs, n, m, neighbor, must, seen \cup {key})
              : a \in addNeighbor(objs, n, candidate, m, "CosineDistance") }
       : key \in avail }

\* replenish's outer loop (line 188) over n.neighbors, which the loop body
\* grows: an entry created during the range may be produced or skipped (must
\* holds the keys present when the range began, seen the keys produced).
RECURSIVE replenishOuter(_, _, _, _, _)
replenishOuter(objs, n, m, must, seen) ==
  LET avail == (DOMAIN objs[n].neighbors) \ seen
      stop == IF must \cap avail = {} THEN {objs} ELSE {}
  IN stop \cup UNION {
       LET neighbor == objs[n].neighbors[key] IN
       UNION {
         IF r.ret THEN {r.objs}
         ELSE replenishOuter(r.objs, n, m, must, seen \cup {key})
         : r \in replenishInner(objs, n, m, neighbor,
                                DOMAIN objs[neighbor].neighbors, {}) }
       : key \in avail }

\* n.replenish(m): the heaps it can leave.
replenish(objs, n, m) ==
  IF MapLen(objs[n].neighbors) >= m THEN {objs}
  ELSE replenishOuter(objs, n, m, DOMAIN objs[n].neighbors, {})

\* A plausible slip in addNeighbor: the map is never cut back to m entries.
addNeighborKeepAll(objs, n, newNode, m, dist) ==
  {[objs |-> [objs EXCEPT ![n].neighbors = MapPut(@, objs[newNode].Key, newNode)],
    err |-> FALSE]}

\* n.addNeighbor(newNode, m, dist): records [objs, err].
addNeighbor(objs, n, newNode, m, dist) ==
  LET o1 == [objs EXCEPT ![n].neighbors = MapPut(@, objs[newNode].Key, newNode)] IN
  IF MapLen(o1[n].neighbors) <= m THEN {[objs |-> o1, err |-> FALSE]}
  ELSE UNION {
    IF w.err THEN {[objs |-> o1, err |-> TRUE]}
    ELSE LET worst == w.worst
             o2 == [o1 EXCEPT ![n].neighbors = MapDel(@, o1[worst].Key)]
             o3 == [o2 EXCEPT ![worst].neighbors = MapDel(@, o2[n].Key)]
         IN {[objs |-> o, err |-> FALSE] : o \in replenish(o3, worst, m)}
    : w \in FindWorst(o1, n, DOMAIN o1[n].neighbors, nil, NegInf, dist) }

\* n.isolate(m): n's neighbors in any order (todo: those not yet produced).
RECURSIVE isolate(_, _, _, _)
isolate(objs, n, m, todo) ==
  IF todo = {} THEN {objs}
  ELSE UNION {
    LET neighbor == objs[n].neighbors[key]
        o1 == [objs EXCEPT ![neighbor].neighbors = MapDel(@, objs[n].Key)]
    IN UNION {isolate(o2, n, m, todo \ {key}) : o2 \in replenish(o1, neighbor, m)}
    : key \in todo }

(* -------------------------------- layer -------------------------------- *)
\* &layer[K]{}: no nodes.
EmptyLayer == [nodes |-> EmptyMap, objs |-> <<>>]

\* layer.entry(): the first node a range over the map yields, so any node of
\* the layer; nil for an empty layer.
entry(l) ==
  IF DOMAIN l.nodes = {} THEN {nil} ELSE {l.nodes[k] : k \in DOMAIN l.nodes}

size(l) == MapLen(l.nodes)

\* Pointers carry no meaning beyond identity and unreachable objects are
\* garbage: renumber a layer's objects, the nodes of the map first in key
\* order, then the objects reachable from them in breadth-first order.
RECURSIVE AppendNew(_, _, _)
AppendNew(ord, nbrs, ks) ==
  IF ks = <<>> THEN ord
  ELSE LET x == nbrs[Head(ks)]
       IN AppendNew(IF \E i \in 1..Len(ord) : ord[i] = x THEN ord ELSE Append(ord, x),
                    nbrs, Tail(ks))

RECURSIVE ReachOrder(_, _, _)
ReachOrder(objs, ord, i) ==
  IF i > Len(ord) THEN ord
  ELSE ReachOrder(objs,
                  AppendNew(ord, objs[ord[i]].neighbors,
                            SortedKeys(DOMAIN objs[ord[i]].neighbors)),
                  i + 1)

Collect(l) ==
  LET ks == SortedKeys(DOMAIN l.nodes)
      ord == ReachOrder(l.objs, [i \in 1..Len(ks) |-> l.nodes[ks[i]]], 1)
      pos(x) == CHOOSE i \in 1..Len(ord) : ord[i] = x
  IN [nodes |-> [k \in DOMAIN l.nodes |-> pos(l.nodes[k])],
      objs |-> [i \in 1..Len(ord) |->
                  [Key |-> l.objs[ord[i]].Key,
                   Value |-> l.objs[ord[i]].Value,
                   neighbors |-> [k \in DOMAIN l.objs[ord[i]].neighbors |->
                                    pos(l.objs[ord[i]].neighbors[k])]]]]

CollectAll(ls) == [i \in 1..Len(ls) |-> Collect(ls[i])]

(* -------------------------------- Graph -------------------------------- *)
\* Graph.Len()
GraphLen(ls) == IF Len(ls) = 0 THEN 0 ELSE size(ls[1])

\* What Dims yields when entry() is nil: the dereference entry().Value of
\* line 361 panics and no length is returned.
Panic == -1

\* Graph.Dims(): the values it can return (Panic: it does not return).
Dims(ls) ==
  IF Len(ls) = 0 THEN {0}
  ELSE {IF e = nil THEN Panic ELSE Len(ls[1].objs[e].Value) : e \in entry(ls[1])}

\* Graph.assertDims(n): "" for nil, the error, or "panic" out of Dims.
assertDims(ls, n) ==
  IF Len(ls) = 0 THEN {""}
  ELSE {IF dims = Panic THEN "panic"
        ELSE IF dims # Len(n) THEN "embedding dimension mismatch" ELSE ""
        : dims \in Dims(ls)}

\* 1 / Graph.Ml for the default Ml = 0.25.
InvMl == 4

\* maxLevel(ml, numNodes) = round(ln numNodes / ln (1/ml)) + 1, and 1 for no
\* nodes.  round(log_b n) = r  iff  b^(2r-1) <= n^2 < b^(2r+1).
maxLevel(numNodes) ==
  IF numNodes = 0 THEN 1
  ELSE (CHOOSE r \in 0..numNodes :
          /\ numNodes * numNodes < Pow(InvMl, 2 * r + 1)
          /\ (r = 0 \/ Pow(InvMl, 2 * r - 1) <= numNodes * numNodes)) + 1

\* randomLevel(): the levels the draws of Rng can select.
randomLevel(ls) ==
  LET max == IF Len(ls) > 0 THEN maxLevel(size(ls[1])) ELSE 1
  IN 0..max

(* ------------------------------ Graph.Add ------------------------------ *)
\* Lines 447-451: a bidirectional edge between newNode and each member of the
\* neighborhood, in slice order.  The errors of addNeighbor are dropped and
\* the loop goes on; dropped says whether there has been one.  Records
\* [objs, dropped].
RECURSIVE connect(_, _, _, _, _)
connect(objs, neighborhood, j, newNode, dropped) ==
  IF j > Len(neighborhood) THEN {[objs |-> objs, dropped |-> dropped]}
  ELSE UNION {
    UNION {
      connect(b.objs, neighborhood, j + 1, newNode, dropped \/ a.err \/ b.err)
      : b \in addNeighbor(a.objs, newNode, neighborhood[j].node, M, "Distance") }
    : a \in addNeighbor(objs, neighborhood[j].node, newNode, M, "Distance") }

\* A plausible slip in lines 440-446: a node already stored under key stays.
replaceNodeKeepOld(nodes, key, newNode) ==
  IF key \in DOMAIN nodes THEN nodes ELSE MapPut(nodes, key, newNode)

\* What lines 440-446 do to the layer's map: delete(layer.nodes, key) if the
\* key is present, then layer.nodes[key] = newNode.
replaceNode(nodes, key, newNode) ==
  MapPut(IF key \in DOMAIN nodes THEN MapDel(nodes, key) ELSE nodes, key, newNode)

\* The loop over the layers (lines 397-453) from layer index i down to the
\* base, then the check of lines 456-464.  ls[i + 1] is g.layers[i].  Returns
\* records [layers, err, repl, dropped]; repl collects the replaced objects as
\* pairs <<layer index, object>>, dropped says whether an error of addNeighbor
\* was dropped at lines 449-450.
RECURSIVE AddLayers(_, _, _, _, _, _, _, _, _, _)
AddLayers(ls, i, key, vec, insertLevel, elevator, wasUpdated, preLen, repl, dropped) ==
  IF i < 0 THEN
    {[layers |-> ls, repl |-> repl, dropped |-> dropped,
      err |-> IF wasUpdated
              THEN (IF GraphLen(ls) # preLen THEN "node not updated" ELSE "")
              ELSE (IF GraphLen(ls) # preLen + 1 THEN "node not added" ELSE "")]}
  ELSE
    LET layer == ls[i + 1]
        objs1 == Append(layer.objs, [Key |-> key, Value |-> vec, neighbors |-> EmptyMap])
        newNode == Len(objs1)
    IN
    IF entry(layer) = {nil}
    THEN AddLayers([ls EXCEPT ![i + 1] = [nodes |-> MapPut(EmptyMap, key, newNode),
                                           objs |-> objs1]],
                   i - 1, key, vec, insertLevel, elevator, wasUpdated, preLen, repl,
                   dropped)
    ELSE
      LET searchPoints ==
            IF elevator # nil
            THEN {IF elevator \in DOMAIN layer.nodes THEN layer.nodes[elevator] ELSE nil}
            ELSE entry(layer)
      IN UNION {
        UNION {
          IF s.err # ""
          THEN {[layers |-> ls, repl |-> repl, dropped |-> dropped, err |-> s.err]}
          ELSE IF Len(s.res) = 0
          THEN {[layers |-> ls, repl |-> repl, dropped |-> dropped,
                 err |-> "empty neighborhood"]}
          ELSE
            LET neighborhood == s.res
                elevator1 == objs1[neighborhood[1].node].Key
            IN
            IF insertLevel >= i
            THEN
              LET had == key \in DOMAIN layer.nodes
                  node == IF had THEN layer.nodes[key] ELSE nil
                  isolated == IF had
                              THEN isolate(objs1, node, M, DOMAIN objs1[node].neighbors)
                              ELSE {objs1}
                  nodes1 == replaceNode(layer.nodes, key, newNode)
              IN UNION {
                   UNION {
                     AddLayers([ls EXCEPT ![i + 1] = [nodes |-> nodes1, objs |-> o2.objs]],
                               i - 1, key, vec, insertLevel, elevator1,
                               wasUpdated \/ had, preLen,
                               IF had THEN repl \cup {<<i + 1, node>>} ELSE repl,
                               o2.dropped)
                     : o2 \in connect(o1, neighborhood, 1, newNode, dropped) }
                   : o1 \in isolated }
            ELSE AddLayers(ls, i - 1, key, vec, insertLevel, elevator1,
                           wasUpdated, preLen, repl, dropped)
          : s \in search(objs1, searchPoint, M, EfConstruction, vec) }
        : searchPoint \in searchPoints }

\* Lines 384-386: create the layers that do not exist yet.
RECURSIVE GrowLayers(_, _)
GrowLayers(ls, insertLevel) ==
  IF insertLevel >= Len(ls) THEN GrowLayers(Append(ls, EmptyLayer), insertLevel)
  ELSE ls

\* One round of Add's loop over its nodes, for one node at the level
\* randomLevel drew (assertDims has been called and has returned).
AddNode(ls, key, vec, insertLevel) ==
  LET ls1 == GrowLayers(ls, insertLevel)
  IN AddLayers(ls1, Len(ls1) - 1, key, vec, insertLevel, nil, FALSE, GraphLen(ls1),
               {}, FALSE)

(* ----------------------------- Graph.Delete ---------------------------- *)
RECURSIVE DeleteLayers(_, _, _, _)
DeleteLayers(ls, i, key, deleted) ==
  IF i > Len(ls) THEN {[layers |-> ls, deleted |-> deleted]}
  ELSE IF key \notin DOMAIN ls[i].nodes THEN DeleteLayers(ls, i + 1, key, deleted)
  ELSE
    LET node == ls[i].nodes[key]
        nodes1 == MapDel(ls[i].nodes, key)
    IN UNION {
         DeleteLayers([ls EXCEPT ![i] = [nodes |-> nodes1, objs |-> o]], i + 1, key, TRUE)
         : o \in isolate(ls[i].objs, node, M, DOMAIN ls[i].objs[node].neighbors) }

\* A plausible slip in DeleteWithLock: only the base layer is visited.
DeleteBaseOnly(ls, key) ==
  IF Len(ls) = 0 THEN {[layers |-> ls, deleted |-> FALSE]}
  ELSE {[layers |-> o.layers \o SubSeq(ls, 2, Len(ls)), deleted |-> o.deleted]
        : o \in DeleteLayers(<<ls[1]>>, 1, key, FALSE)}

DeleteWithLock(ls, key) ==
  IF Len(ls) = 0 THEN {[layers |-> ls, deleted |-> FALSE]}
  ELSE DeleteLayers(ls, 1, key, FALSE)

(* ----------------------------- Graph.Search ---------------------------- *)
\* The loop of lines 489-520 from layer index layer down; ls[layer + 1] is
\* h.layers[layer].  Records [err, res], res a sequence of SearchResultNode.
RECURSIVE SearchLayers(_, _, _, _, _)
SearchLayers(ls, layer, elevator, near, k) ==
  LET l == ls[layer + 1]
      searchPoints ==
        IF elevator # nil
        THEN {IF elevator \in DOMAIN l.nodes THEN l.nodes[elevator] ELSE nil}
        ELSE entry(l)
  IN UNION {
    IF layer > 0
    THEN UNION {
           IF s.err # "" THEN {[err |-> s.err, res |-> <<>>]}
           ELSE SearchLayers(ls, layer - 1, l.objs[s.res[1].node].Key, near, k)
           : s \in search(l.objs, searchPoint, 1, EfSearch, near) }
    ELSE { IF s.err # "" THEN [err |-> s.err, res |-> <<>>]
           ELSE [err |-> "",
                 res |-> [j \in 1..Len(s.res) |->
                            [Key |-> l.objs[s.res[j].node].Key,
                             Value |-> l.objs[s.res[j].node].Value,
                             Distance |-> s.res[j].dist]]]
           : s \in search(l.objs, searchPoint, k, EfSearch, near) }
    : searchPoint \in searchPoints }

Search(ls, near, k) ==
  UNION {
    IF a = "panic" THEN {[err |-> "panic", res |-> <<>>]}
    ELSE IF Len(ls) = 0 THEN {[err |-> "graph is empty", res |-> <<>>]}
    ELSE SearchLayers(ls, Len(ls) - 1, nil, near, k)
    : a \in assertDims(ls, near) }

(* ----------------------------- Graph.Lookup ---------------------------- *)
Lookup(ls, key) ==
  IF Len(ls) = 0 THEN [ok |-> FALSE, Value |-> <<>>]
  ELSE IF key \notin DOMAIN ls[1].nodes THEN [ok |-> FALSE, Value |-> <<>>]
  ELSE [ok |-> TRUE, Value |-> ls[1].objs[ls[1].nodes[key]].Value]

(* ------------------------------- actions ------------------------------- *)
\* The record of a call: its arguments (key, vec, k), what it returned (err,
\* ret, res) and what held when it began: preLen is Len(), hadKey whether the
\* base layer held key, hadLayers how many layers held it, old the vector
\* Lookup gave for it, dims what assertDims answered.  staleRef: an object the
\* call replaced is still referenced by a node of its layer.  dropped: the
\* call went on after an error of addNeighbor.
NoCall == [op |-> "none", key |-> nil, vec |-> <<>>, k |-> 0, err |-> "",
           ret |-> FALSE, res |-> <<>>, preLen |-> 0, hadKey |-> FALSE,
           hadLayers |-> 0, old |-> <<>>, dims |-> "", staleRef |-> FALSE,
           dropped |-> FALSE]

\* NewGraph() with M set by the caller: no layers.
Init ==
  /\ layers = <<>>
  /\ M \in Ms
  /\ distErr = FALSE
  /\ last = NoCall
  /\ callsLeft = MaxOps

\* Whether a node of layer i of ls holds a neighbor entry that points to object x.
Referenced(ls, i, x) ==
  \E k \in DOMAIN ls[i].nodes :
    \E j \in DOMAIN ls[i].objs[ls[i].nodes[k]].neighbors :
      ls[i].objs[ls[i].nodes[k]].neighbors[j] = x

\* The layers of ls whose node map holds key.
LayersWith(ls, key) == {i \in 1..Len(ls) : key \in DOMAIN ls[i].nodes}

Before(op, key) ==
  [NoCall EXCEPT !.op = op, !.key = key,
                 !.preLen = GraphLen(layers),
                 !.hadKey = Lookup(layers, key).ok,
                 !.hadLayers = Cardinality(LayersWith(layers, key)),
                 !.old = Lookup(layers, key).Value]

\* g.Add(Node{key, vec}).  Add(nodes...) runs this once per node and stops at
\* the first error.  A panic out of assertDims leaves the graph as it was.
Add(key, vec) ==
  /\ callsLeft > 0
  /\ callsLeft' = callsLeft - 1
  /\ UNCHANGED <<M, distErr>>
  /\ \E a \in assertDims(layers, vec) :
       LET call == [Before("Add", key) EXCEPT !.vec = vec, !.dims = a]
       IN IF a = "panic"
          THEN /\ layers' = layers
               /\ last' = [call EXCEPT !.err = "panic"]
          ELSE \E insertLevel \in randomLevel(layers) :
                 \E o \in AddNode(layers, key, vec, insertLevel) :
                   /\ layers' = CollectAll(o.layers)
                   /\ last' = [call EXCEPT
                                 !.err = o.err,
                                 !.dropped = o.dropped,
                                 !.staleRef = \E r \in o.repl :
                                                Referenced(o.layers, r[1], r[2])]

\* h.Delete(key)
Delete(key) ==
  /\ callsLeft > 0
  /\ callsLeft' = callsLeft - 1
  /\ UNCHANGED <<M, distErr>>
  /\ \E o \in DeleteWithLock(layers, key) :
       /\ layers' = CollectAll(o.layers)
       /\ last' = [Before("Delete", key) EXCEPT !.ret = o.deleted]

\* h.Search(near, k)
SearchCall(near, k) ==
  /\ callsLeft > 0
  /\ callsLeft' = callsLeft - 1
  /\ UNCHANGED <<layers, M, distErr>>
  /\ \E o \in Search(layers, near, k) :
       last' = [NoCall EXCEPT !.op = "Search", !.vec = near, !.k = k,
                              !.err = o.err, !.res = o.res,
                              !.preLen = GraphLen(layers)]

\* h.Lookup(key)
LookupCall(key) ==
  /\ callsLeft > 0
  /\ callsLeft' = callsLeft - 1
  /\ UNCHANGED <<layers, M, distErr>>
  /\ last' = [Before("Lookup", key) EXCEPT !.ret = Lookup(layers, key).ok,
                                           !.vec = Lookup(layers, key).Value]

Next ==
  \/ \E n \in Nodes : Add(n.Key, n.Value)
  \/ \E key \in Keys : Delete(key)
  \/ \E near \in Queries, k \in SearchKs : SearchCall(near, k)
  \/ \E key \in Keys : LookupCall(key)

Spec == Init /\ [][Next]_vars

\* Runs of Add and Delete alone, one call longer.
InitMutations ==
  /\ layers = <<>>
  /\ M \in Ms
  /\ distErr = FALSE
  /\ last = NoCall
  /\ callsLeft = MaxMutations

NextMutations ==
  \/ \E n \in Nodes : Add(n.Key, n.Value)
  \/ \E key \in Keys : Delete(key)

SpecMutations == InitMutations /\ [][NextMutations]_vars

(* ------------------------------- claims -------------------------------- *)
\* C1: in every layer, every neighbor entry of a node of the layer, under key
\* j, points to the node the layer stores under j, and that node holds an
\* entry for the first node's key.
C1_EdgesInLayerAndReciprocated ==
  \A i \in 1..Len(layers) : \A k \in DOMAIN layers[i].nodes :
    LET l == layers[i]
        n == l.nodes[k]
    IN \A j \in DOMAIN l.objs[n].neighbors :
         /\ j \in DOMAIN l.nodes
         /\ l.objs[n].neighbors[j] = l.nodes[j]
         /\ l.objs[n].Key \in DOMAIN l.objs[l.nodes[j]].neighbors

C3_DeleteRemovesInboundEdges ==
  (last.op = "Delete" /\ last.ret) =>
    \A i \in 1..Len(layers) :
      /\ last.key \notin DOMAIN layers[i].nodes
      /\ \A k \in DOMAIN layers[i].nodes :
           last.key \notin DOMAIN layers[i].objs[layers[i].nodes[k]].neighbors

\* C4: Dims() never fails; it returns 0 when the graph holds no key and the
\* length of a stored vector otherwise, and no Add or Search fails inside the
\* dimension check.
C4_DimsNeverFails ==
  /\ \A d \in Dims(layers) :
       /\ d # Panic
       /\ GraphLen(layers) = 0 => d = 0
       /\ GraphLen(layers) > 0 =>
            \E k \in DOMAIN layers[1].nodes :
              d = Len(layers[1].objs[layers[1].nodes[k]].Value)
  /\ last.err # "panic"

\* C5: a Search with k >= 1 and a query of length Dims() on a graph with
\* Len() > 0 returns no error and at least one result.
C5_SearchFindsSomething ==
  (/\ last.op = "Search"
   /\ last.k >= 1
   /\ GraphLen(layers) > 0
   /\ Dims(layers) = {Len(last.vec)})
    => (last.err = "" /\ Len(last.res) >= 1)

\* C6: after an Add of a key the graph already held, every layer that holds a
\* node under the key holds the new vector, and no neighbor map of a node of
\* a layer references a replaced object.
C6_ReplaceIsDeleteThenAdd ==
  (last.op = "Add" /\ last.err = "" /\ last.hadKey) =>
    /\ \A i \in LayersWith(layers, last.key) :
         layers[i].objs[layers[i].nodes[last.key]].Value = last.vec
    /\ ~last.staleRef

\* C7: after an Add(n) that returned no error, Lookup(n.Key) is present with
\* n.Value.
C7_LookupAfterAdd ==
  (last.op = "Add" /\ last.err = "") =>
    Lookup(layers, last.key) = [ok |-> TRUE, Value |-> last.vec]

\* An Add has replaced the vector of a key by a different one.
C7_Witness ==
  /\ last.op = "Add"
  /\ last.err = ""
  /\ last.hadKey
  /\ last.old # last.vec
  /\ Lookup(layers, last.key).Value = last.vec

\* C8: an Add of a key the base layer lacked raises Len() by one, an Add of a
\* key it held leaves Len() as it was, and neither "node not added" nor "node
\* not updated" is returned.  (Stated for the Adds that get past the
\* dimension check; the Adds that panic inside it are C4's.)
C8_LenAfterAdd ==
  (last.op = "Add" /\ last.err # "panic") =>
    /\ GraphLen(layers) = (IF last.hadKey THEN last.preLen ELSE last.preLen + 1)
    /\ last.err \notin {"node not added", "node not updated"}

\* C9: Delete(k) of a key some layer holds returns true, after it Lookup(k) is
\* not found and a second Delete(k) returns false; Delete of a key no layer
\* holds returns false and leaves the layers as they were.
C9_DeleteRoundTrip ==
  [][(last'.op = "Delete" /\ callsLeft' = callsLeft - 1) =>
       IF LayersWith(layers, last'.key) # {}
       THEN /\ last'.ret
            /\ ~Lookup(layers', last'.key).ok
            /\ \A o \in DeleteWithLock(layers', last'.key) : ~o.deleted
       ELSE /\ ~last'.ret
            /\ layers' = layers]_vars

\* A Delete has returned true for a key that two layers held.
C9_Witness ==
  /\ last.op = "Delete"
  /\ last.ret
  /\ last.hadLayers >= 2
  /\ LayersWith(layers, last.key) = {}

\* The lengths of the vectors stored in the layers.
StoredLengths ==
  UNION {{Len(layers[i].objs[layers[i].nodes[k]].Value) :
            k \in DOMAIN layers[i].nodes} : i \in 1..Len(layers)}

\* C10: an Add to a non-empty graph of a vector whose length differs from
\* Dims() returns the dimension-mismatch error, and every vector stored in a
\* layer has length Dims().
C10_DimensionGuard ==
  /\ (last.op = "Add" /\ last.dims = "embedding dimension mismatch")
       => last.err = "embedding dimension mismatch"
  /\ \A d \in Dims(layers) : \A n \in StoredLengths : d = Panic \/ n = d

\* C11: a Search(q, k) that returns no error returns at most k results.
C11_AtMostKResults ==
  (last.op = "Search" /\ last.err = "") => Len(last.res) <= last.k

\* Runs of Add calls followed by Search calls, the queries including one that
\* is nearest to the last of the Nodes.
NextAddSearch ==
  \/ \E n \in Nodes : Add(n.Key, n.Value)
  \/ \E near \in Queries \cup {<<4>>}, k \in SearchKs : SearchCall(near, k)

SpecAddSearch == Init /\ [][NextAddSearch]_vars

\* The vectors held by the objects of the layers, stored or stale.
HeldVectors ==
  UNION {{layers[i].objs[x].Value : x \in 1..Len(layers[i].objs)} :
           i \in 1..Len(layers)}

\* C12: after a sequence of Adds, what a Search returned is the only thing
\* that Search can return in that state, whichever entry node and heap order
\* the run takes: two runs that agree up to the Search agree on its result.
\* (Stated for queries from which no two held vectors are equally distant.)
C12_SearchIsDeterministic ==
  (/\ last.op = "Search"
   /\ \A v, w \in HeldVectors :
        v # w => Distance(v, last.vec) # Distance(w, last.vec))
    => \A o \in Search(layers, last.vec, last.k) :
         o.err = last.err /\ o.res = last.res

(* ---------------------------- concurrency ------------------------------ *)
\* Calls from several goroutines.  Add locks g.mu at line 371 and unlocks it
\* when it returns; AddBegin is Add up to line 394 (the lock taken, assertDims,
\* randomLevel, the new layers appended, preLen read), AddEnd the rest.  While
\* an Add is between the two, last (or last.pending, once another call has
\* been recorded) is its record, with op = "Adding".
Pending(l) ==
  IF l.op = "Adding" THEN l
  ELSE IF "pending" \in DOMAIN l THEN l.pending
  ELSE NoCall

\* g.mu is held by a writer.
WriteLocked == Pending(last).op = "Adding"

\* The record of an observer's call, carrying the Add in progress, if any.
Observed(call) ==
  IF WriteLocked THEN call @@ [pending |-> Pending(last)] ELSE call

AddBegin(key, vec) ==
  /\ callsLeft > 0
  /\ ~WriteLocked
  /\ callsLeft' = callsLeft - 1
  /\ UNCHANGED <<M, distErr>>
  /\ \E a \in assertDims(layers, vec) :
       LET call == [Before("Add", key) EXCEPT !.vec = vec, !.dims = a]
       IN IF a = "panic"
          THEN /\ layers' = layers
               /\ last' = [call EXCEPT !.err = "panic"]
          ELSE \E insertLevel \in randomLevel(layers) :
                 /\ layers' = GrowLayers(layers, insertLevel)
                 /\ last' = [call EXCEPT !.op = "Adding"]
                              @@ [insertLevel |-> insertLevel]

AddEnd ==
  /\ WriteLocked
  /\ UNCHANGED <<M, distErr, callsLeft>>
  /\ LET p == Pending(last)
     IN \E o \in AddLayers(layers, Len(layers) - 1, p.key, p.vec, p.insertLevel,
                           nil, FALSE, GraphLen(layers), {}, FALSE) :
          /\ layers' = CollectAll(o.layers)
          /\ last' = [[f \in DOMAIN NoCall |-> p[f]] EXCEPT
                        !.op = "Add",
                        !.err = o.err,
                        !.dropped = o.dropped,
                        !.staleRef = \E r \in o.repl :
                                       Referenced(o.layers, r[1], r[2])]

\* h.Len(): takes no lock.
LenCall ==
  /\ callsLeft > 0
  /\ callsLeft' = callsLeft - 1
  /\ UNCHANGED <<layers, M, distErr>>
  /\ last' = Observed([NoCall EXCEPT !.op = "Len", !.preLen = GraphLen(layers)])

\* g.Dims(): takes no lock.  preLen records the value returned.
DimsCall ==
  /\ callsLeft > 0
  /\ callsLeft' = callsLeft - 1
  /\ UNCHANGED <<layers, M, distErr>>
  /\ \E d \in Dims(layers) :
       last' = Observed([NoCall EXCEPT !.op = "Dims",
                                       !.err = IF d = Panic THEN "panic" ELSE "",
                                       !.preLen = d])

\* Delete locks h.mu, Search and Lookup lock it for reading: none of them
\* runs while an Add holds it.
NextConcurrent ==
  \/ \E n \in Nodes : AddBegin(n.Key, n.Value)
  \/ AddEnd
  \/ LenCall
  \/ DimsCall
  \/ \E key \in Keys : ~WriteLocked /\ Delete(key)
  \/ \E near \in Queries, k \in SearchKs : ~WriteLocked /\ SearchCall(near, k)
  \/ \E key \in Keys : ~WriteLocked /\ LookupCall(key)

SpecConcurrent == Init /\ [][NextConcurrent]_vars

\* C13: no call of Search, Lookup, Len or Dims reads the graph while an Add
\* holds the lock, that is, part-way through the Add.
C13_ObserversExcludeWriters ==
  last.op \in {"Search", "Lookup", "Len", "Dims"} => ~WriteLocked

(* ------------------------- failing distance --------------------------- *)
\* NewGraph() with a distance function that can return an error.
InitDistErr ==
  /\ layers = <<>>
  /\ M \in Ms
  /\ distErr = TRUE
  /\ last = NoCall
  /\ callsLeft = MaxOps

SpecDistErr == InitDistErr /\ [][NextMutations]_vars

\* C14: an Add during which a call of the distance function failed, the calls
\* addNeighbor makes included, returns an error (and so does not go on).
C14_DistanceErrorStopsAdd ==
  (last.op = "Add" /\ last.dropped) => last.err # ""

(* --------------------------- small graphs ----------------------------- *)
\* NewGraph() with M set to the number of keys: the graph never holds more
\* than M nodes.
InitRoomy ==
  /\ layers = <<>>
  /\ M = Cardinality(Keys)
  /\ distErr = FALSE
  /\ last = NoCall
  /\ callsLeft = MaxOps

\* Adds of keys the graph does not hold, and Searches.
NextDistinct ==
  \/ \E n \in Nodes : LayersWith(layers, n.Key) = {} /\ Add(n.Key, n.Value)
  \/ \E near \in Queries \cup {<<4>>}, k \in SearchKs : SearchCall(near, k)

SpecDistinct == InitRoomy /\ [][NextDistinct]_vars

\* The least distance from a vector stored in the base layer to near.
NearestDist(ls, near) ==
  LET ds == {Distance(ls[1].objs[ls[1].nodes[k]].Value, near) :
               k \in DOMAIN ls[1].nodes}
  IN CHOOSE d \in ds : \A e \in ds : d <= e

\* C15: on a non-empty graph of at most M nodes built by Adds of distinct
\* keys, Search(q, 1) returns no error and exactly one result, a stored node
\* whose vector is at the least distance from q among the stored vectors.
C15_NearestOfSmallGraph ==
  (last.op = "Search" /\ last.k = 1 /\ GraphLen(layers) > 0) =>
    /\ last.err = ""
    /\ Len(last.res) = 1
    /\ Lookup(layers, last.res[1].Key) = [ok |-> TRUE, Value |-> last.res[1].Value]
    /\ Distance(last.res[1].Value, last.vec) = NearestDist(layers, last.vec)

\* A Search(q, 1) on three nodes in two or more layers has returned a node
\* other than the one stored in the top layer alone.
C15_Witness ==
  /\ last.op = "Search"
  /\ last.k = 1
  /\ last.err = ""
  /\ GraphLen(layers) = Cardinality(Keys)
  /\ Len(layers) >= 2
  /\ size(layers[Len(layers)]) = 1
  /\ Len(last.res) = 1
  /\ last.res[1].Key \notin DOMAIN layers[Len(layers)].nodes

\* C16: after every Add that returned no error and every Delete, a key
\* present in a layer above the base is present in every layer below it.
C16_UpperKeysAreBelow ==
  (last.op = "Delete" \/ (last.op = "Add" /\ last.err = "")) =>
    \A i \in 2..Len(layers) : \A j \in 1..(i - 1) :
      DOMAIN layers[i].nodes \subseteq DOMAIN layers[j].nodes

\* C17: no node stored in a layer holds a neighbor entry under its own key.
C17_NoSelfKeyEntry ==
  \A i \in 1..Len(layers) : \A k \in DOMAIN layers[i].nodes :
    k \notin DOMAIN layers[i].objs[layers[i].nodes[k]].neighbors

(* ------------------------- addNeighbor alone --------------------------- *)
\* Four nodes of distinct keys, for a layer that holds more than M + 1 nodes
\* with M = 2.
WideNodes == {[Key |-> k, Value |-> <<Pow(2, k - 1)>>] : k \in 1..4}

InitWide ==
  /\ layers = <<>>
  /\ M = 2
  /\ distErr = FALSE
  /\ last = NoCall
  /\ callsLeft = MaxOps

\* Adds of keys the graph does not hold.
NextWide ==
  \E n \in WideNodes : LayersWith(layers, n.Key) = {} /\ Add(n.Key, n.Value)

SpecWide == InitWide /\ [][NextWide]_vars

\* The first call of addNeighbor (line 449) that an Add of a node of
\* WideNodes with a new key makes in the top layer of the current graph, when
\* that call overflows the receiver's map: records [objs, n, newNode], objs
\* the layer's objects with the new node appended, n the first member of the
\* neighborhood that search returned from the layer's entry.
EvictingCalls ==
  IF Len(layers) = 0 THEN {}
  ELSE
    LET layer == layers[Len(layers)] IN
    UNION {
      LET objs1 == Append(layer.objs,
                          [Key |-> nd.Key, Value |-> nd.Value, neighbors |-> EmptyMap])
      IN UNION {
           {[objs |-> objs1, n |-> s.res[1].node, newNode |-> Len(objs1)]
              : s \in {t \in search(objs1, sp, M, EfConstruction, nd.Value) :
                         /\ t.err = ""
                         /\ MapLen(objs1[t.res[1].node].neighbors) >= M}}
           : sp \in entry(layer) \ {nil} }
      : nd \in {x \in WideNodes : LayersWith(layers, x.Key) = {}} }

\* What C18 asks of one overflowing call n.addNeighbor(newNode, M, Distance)
\* on objs with result o: one entry of n's map is gone, none of the entries
\* was farther from n than it, and the evicted node holds no entry for n's key.
EvictsWorst(c, o) ==
  LET before == MapPut(c.objs[c.n].neighbors, c.objs[c.newNode].Key, c.newNode)
      after == o.objs[c.n].neighbors
  IN /\ ~o.err
     /\ \E gone \in DOMAIN before :
          /\ DOMAIN after = (DOMAIN before) \ {gone}
          /\ \A k \in DOMAIN after : after[k] = before[k]
          /\ \A k \in DOMAIN before :
               Distance(c.objs[before[k]].Value, c.objs[c.n].Value)
                 <= Distance(c.objs[before[gone]].Value, c.objs[c.n].Value)
          /\ c.objs[c.n].Key \notin DOMAIN o.objs[before[gone]].neighbors

\* C18: every call of addNeighbor that pushes the receiver's map above M
\* entries removes exactly one entry, one at the greatest distance from the
\* receiver, and leaves the evicted node without an entry for the receiver.
C18_EvictionRemovesWorst ==
  \A c \in EvictingCalls :
    \A o \in addNeighbor(c.objs, c.n, c.newNode, M, "Distance") : EvictsWorst(c, o)

\* Runs of Add, Delete and Search, as long as those of Add and Delete alone.
NextMutateSearch ==
  \/ NextMutations
  \/ \E near \in Queries, k \in SearchKs : SearchCall(near, k)

SpecMutateSearch == InitMutations /\ [][NextMutateSearch]_vars

\* C19: every element a Search returns has a key the base layer holds and
\* carries the vector Lookup returns for that key.  (Stated for graphs all of
\* whose vectors have the length of the query.)
C19_SearchReturnsStoredNodes ==
  (/\ last.op = "Search"
   /\ last.err = ""
   /\ \A v \in HeldVectors : Len(v) = Len(last.vec)) =>
    \A j \in 1..Len(last.res) :
      Lookup(layers, last.res[j].Key) = [ok |-> TRUE, Value |-> last.res[j].Value]

\* The number of calls in a run of SpecReplenish.
MaxReplenishCalls == 7

InitReplenish ==
  /\ layers = <<>>
  /\ M = 3
  /\ distErr = FALSE
  /\ last = NoCall
  /\ callsLeft = MaxReplenishCalls

\* h.Add(node) when the first draw of Graph.Rng exceeds Ml, so that
\* randomLevel (line 336) returns level 0.
AddLevel0(key, vec) ==
  /\ callsLeft > 0
  /\ callsLeft' = callsLeft - 1
  /\ UNCHANGED <<M, distErr>>
  /\ \E a \in assertDims(layers, vec) :
       LET call == [Before("Add", key) EXCEPT !.vec = vec, !.dims = a]
       IN IF a = "panic"
          THEN /\ layers' = layers
               /\ last' = [call EXCEPT !.err = "panic"]
          ELSE \E o \in AddNode(layers, key, vec, 0) :
                 /\ layers' = CollectAll(o.layers)
                 /\ last' = [call EXCEPT
                               !.err = o.err,
                               !.dropped = o.dropped,
                               !.staleRef = \E r \in o.repl :
                                              Referenced(o.layers, r[1], r[2])]

\* Adds at level 0 and Deletes over four keys.
NextReplenish ==
  \/ \E n \in WideNodes : AddLevel0(n.Key, n.Value)
  \/ \E k \in 1..4 : Delete(k)

SpecReplenish == InitReplenish /\ [][NextReplenish]_vars

\* Object x of layer l has a two-hop candidate as replenish understands it: an
\* entry of a neighbor's map that is not x itself and whose key x's map lacks.
HasCandidate(l, x) ==
  \E k1 \in DOMAIN l.objs[x].neighbors :
    LET nb == l.objs[x].neighbors[k1]
    IN \E k2 \in DOMAIN l.objs[nb].neighbors :
         /\ k2 \notin DOMAIN l.objs[x].neighbors
         /\ l.objs[nb].neighbors[k2] # x

\* C20: when Delete(k) returns true, every node stored in a layer that was a
\* neighbor of k's node there has afterwards at least M neighbors or no
\* two-hop candidate left.
C20_NeighborsReplenished ==
  [][(last'.op = "Delete" /\ last'.ret /\ callsLeft' = callsLeft - 1) =>
       \A i \in LayersWith(layers, last'.key) :
         LET l == layers[i]
             node == l.nodes[last'.key]
         IN \A nk \in DOMAIN l.objs[node].neighbors :
              (nk \in DOMAIN l.nodes /\ l.nodes[nk] = l.objs[node].neighbors[nk]
                 /\ nk # last'.key)
                => LET x == layers'[i].nodes[nk]
                   IN \/ MapLen(layers'[i].objs[x].neighbors) >= M
                      \/ ~HasCandidate(layers'[i], x)]_vars

====
